---- MODULE Spec2Model ----
(***************************************************************************)
(* Model of the multimodal medical search pipeline:                        *)
(*   src/src/lib/loadData.py              MedicalDatasetLoader             *)
(*   src/src/lib/searchEngine.py          MedicalSearchEngine              *)
(*   src/src/lib/minimal_search_engine.py fallback_search                  *)
(*                                                                         *)
(* Embedding vectors are pairs of integers.  A unit vector is represented  *)
(* in fixed point with length 5, so a cosine is an integer in -25..25.     *)
(* The embedding models, the vector index and the file system are the      *)
(* program's external collaborators: they are modelled by what the code    *)
(* relies on (encode, normalize_L2, IndexFlatIP.add/search, json/pickle).  *)
(***************************************************************************)
EXTENDS Integers, Sequences, FiniteSets, TLC

VARIABLES
    dirs,            \* the dataset directories on disk (environment)
    loaded_data,     \* loader.loaded_data: csv / text / image item lists
    loader_models,   \* loader.text_model / image_model are initialized
    text_model,      \* engine.text_model is set
    image_model,     \* engine.image_model is set
    text_index,      \* engine.text_index  ([set, vecs])
    image_index,     \* engine.image_index ([set, vecs])
    text_mapping,    \* engine.text_mapping
    image_mapping,   \* engine.image_mapping
    cache,           \* the cache directory: index / mapping / data-cache files
    ret,             \* outcome of the last call: operation, arguments, result, raised
    tasks,           \* the coroutines suspended on the event loop: a build, a search
    store            \* the document store: whether the engine has a collection, its documents

vars == <<dirs, loaded_data, loader_models, text_model, image_model,
          text_index, image_index, text_mapping, image_mapping, cache, ret, tasks, store>>

engine_vars == <<text_model, image_model, text_index, image_index,
                 text_mapping, image_mapping>>

-----------------------------------------------------------------------------
(* Bounds of the model *)

\* largest top_k a query is issued with
MaxTopK == 2
\* largest number of records (rows, entries, image files) a dataset-directory
\* snapshot of the loader specification holds
MaxRecords == 3
\* largest number of files in one dataset directory
MaxFiles == 2
\* largest number of tokens in a query given to the keyword fallback
MaxQueryLen == 2

-----------------------------------------------------------------------------
(* Sequence helpers *)

Range(s) == {s[i] : i \in 1..Len(s)}

RECURSIVE Flatten(_)
Flatten(ss) == IF ss = <<>> THEN <<>> ELSE Head(ss) \o Flatten(Tail(ss))

Min2(a, b) == IF a <= b THEN a ELSE b

-----------------------------------------------------------------------------
(* loadData.py: dataset configuration *)

CsvDatasets == <<"breast-cancer", "diabetes", "stroke">>
TextDatasets == <<"medical-transcriptions", "pubmedqa">>
ImageDatasets == <<"brain-scans", "covid-xray", "ecg-heartbeat">>

AllDatasets == Range(CsvDatasets) \cup Range(TextDatasets) \cup Range(ImageDatasets)

Categories(ds) ==
    CASE ds = "brain-scans" ->
             <<"glioma_tumor", "meningioma_tumor", "no_tumor", "pituitary_tumor">>
      [] ds = "covid-xray" -> <<"NORMAL", "PNEUMONIA", "COVID">>
      [] OTHER -> <<"normal", "abnormal">>

ImageFormats(ds) ==
    CASE ds = "brain-scans" -> <<".jpg", ".jpeg", ".png", ".bmp">>
      [] ds = "covid-xray" -> <<".jpg", ".jpeg", ".png">>
      [] OTHER -> <<".png", ".jpg">>

(***************************************************************************)
(* A dataset directory is [exists, cats, files].                           *)
(*  - csv / text datasets: files is a sequence (in glob order) of files, a *)
(*    file a sequence of records [kind, text, dtype]:                      *)
(*      kind  "ok"    a well-formed record                                 *)
(*            "blank" the text column is NaN / the entry has no question   *)
(*            "bad"   a malformed record: pd.read_csv raises on the file,  *)
(*                    or the JSON entry's question is not a string         *)
(*      dtype "numpy_int" when pandas hands the metadata out as            *)
(*            numpy.int64, "native" otherwise                              *)
(*  - image datasets: cats is the set of category sub-directories that     *)
(*    exist, files a sequence of [loc, stem, ext, valid, decodable, pix]   *)
(*    with loc a category or "" for the dataset directory itself.          *)
(***************************************************************************)
MissingDir == [exists |-> FALSE, cats |-> {}, files |-> <<>>]

NoDirs == [ds \in AllDatasets |-> MissingDir]

Item(id, ds, type, content, metadata, file_path, category) ==
    [id |-> id, dataset |-> ds, type |-> type, content |-> content,
     metadata |-> metadata, file_path |-> file_path, category |-> category]

\* pd.read_csv(csv_file): a malformed line makes the parser raise
ReadCsvRaises(file) == \E i \in 1..Len(file) : file[i].kind = "bad"

\* loadData.py 149-182: one item for every row of the data frame
CsvFileItems(ds, fidx, file) ==
    [i \in 1..Len(file) |->
        Item(<<ds, i - 1>>, ds, "csv",
             <<"Medical data from", IF file[i].kind = "blank" THEN <<>> ELSE file[i].text>>,
             file[i].dtype, <<ds, fidx>>, "")]

\* loadData.py 140-187: the files of one dataset inside one try block; an
\* exception ends the dataset and keeps what was appended before it
RECURSIVE CsvDatasetItems(_, _, _)
CsvDatasetItems(ds, files, fidx) ==
    IF fidx > Len(files) THEN <<>>
    ELSE IF ReadCsvRaises(files[fidx]) THEN <<>>
    ELSE CsvFileItems(ds, fidx, files[fidx]) \o CsvDatasetItems(ds, files, fidx + 1)

\* a loader that gives up on every dataset when one directory is missing
LoadCsvDatasetOrAbort(d, ds) ==
    IF \E n \in 1..Len(CsvDatasets) : ~d[CsvDatasets[n]].exists THEN <<>>
    ELSE CsvDatasetItems(ds, d[ds].files, 1)

\* loadData.py 133-138: a missing dataset directory is skipped
LoadCsvDataset(d, ds) ==
    IF ~d[ds].exists THEN <<>> ELSE CsvDatasetItems(ds, d[ds].files, 1)

\* loadData.py 128-191: load_csv_datasets
load_csv_datasets(d) ==
    Flatten([n \in 1..Len(CsvDatasets) |-> LoadCsvDataset(d, CsvDatasets[n])])

\* loadData.py 212-230: rows with a transcription become items, NaN rows are skipped
RECURSIVE TranscriptionFileItems(_, _, _, _)
TranscriptionFileItems(ds, fidx, file, i) ==
    IF i > Len(file) THEN <<>>
    ELSE (IF file[i].kind = "ok"
          THEN <<Item(<<ds, i - 1>>, ds, "text",
                      <<"Medical transcription", file[i].text>>,
                      file[i].dtype, <<ds, fidx>>, "")>>
          ELSE <<>>)
         \o TranscriptionFileItems(ds, fidx, file, i + 1)

\* loadData.py 241-263: the entries of one JSON file in order; [items, raised]
RECURSIVE PubmedFileItems(_, _, _, _)
PubmedFileItems(ds, fidx, file, i) ==
    IF i > Len(file) THEN [items |-> <<>>, raised |-> FALSE]
    ELSE IF file[i].kind = "bad" THEN [items |-> <<>>, raised |-> TRUE]
    ELSE LET rest == PubmedFileItems(ds, fidx, file, i + 1)
             here == IF file[i].kind = "ok"
                     THEN <<Item(<<ds, i - 1>>, ds, "text",
                                 <<"Medical Question", file[i].text>>,
                                 "native", <<ds, fidx>>, "")>>
                     ELSE <<>>
         IN  [items |-> here \o rest.items, raised |-> rest.raised]

\* loadData.py 205-268: the files of one text dataset inside one try block
RECURSIVE TextDatasetItems(_, _, _)
TextDatasetItems(ds, files, fidx) ==
    IF fidx > Len(files) THEN <<>>
    ELSE IF ds = "medical-transcriptions"
         THEN IF ReadCsvRaises(files[fidx]) THEN <<>>
              ELSE TranscriptionFileItems(ds, fidx, files[fidx], 1)
                   \o TextDatasetItems(ds, files, fidx + 1)
         ELSE LET r == PubmedFileItems(ds, fidx, files[fidx], 1)
              IN  IF r.raised THEN r.items
                  ELSE r.items \o TextDatasetItems(ds, files, fidx + 1)

\* loadData.py 198-203: a missing dataset directory is skipped
LoadTextDataset(d, ds) ==
    IF ~d[ds].exists THEN <<>> ELSE TextDatasetItems(ds, d[ds].files, 1)

\* loadData.py 193-272: load_text_datasets
load_text_datasets(d) ==
    Flatten([n \in 1..Len(TextDatasets) |-> LoadTextDataset(d, TextDatasets[n])])

\* loadData.py 297-331: the files one glob returned; an image that fails
\* verify() is skipped alone
RECURSIVE GlobItems(_, _, _, _, _, _)
GlobItems(ds, category, path, ext, files, i) ==
    IF i > Len(files) THEN <<>>
    ELSE (IF files[i].loc = path /\ files[i].ext = ext /\ files[i].valid
          THEN <<Item(<<ds, category, files[i].stem>>, ds, "image",
                      <<"Medical image from", files[i].pix>>,
                      "native", <<ds, files[i].loc, files[i].stem, files[i].ext>>,
                      category)>>
          ELSE <<>>)
         \o GlobItems(ds, category, path, ext, files, i + 1)

\* loadData.py 288-295: a category whose directory is missing is looked up in
\* the dataset directory itself
CategoryItems(ds, dir, category) ==
    LET path == IF category \in dir.cats THEN category ELSE ""
        fmts == ImageFormats(ds)
    IN  Flatten([k \in 1..Len(fmts) |-> GlobItems(ds, category, path, fmts[k], dir.files, 1)])

\* loadData.py 279-336: one image dataset
LoadImageDataset(d, ds) ==
    IF ~d[ds].exists THEN <<>>
    ELSE LET cs == Categories(ds)
         IN  Flatten([c \in 1..Len(cs) |-> CategoryItems(ds, d[ds], cs[c])])

\* loadData.py 274-340: load_image_datasets
load_image_datasets(d) ==
    Flatten([n \in 1..Len(ImageDatasets) |-> LoadImageDataset(d, ImageDatasets[n])])

-----------------------------------------------------------------------------
(* Embedding models and vector arithmetic *)

ZeroVec == <<0, 0>>

Dot(a, b) == a[1] * b[1] + a[2] * b[2]

\* the Euclidean norm; every vector of the model has an integral norm
Norm(v) == CHOOSE n \in 0..10 : n * n = Dot(v, v)

\* faiss.normalize_L2: scales a row to unit length (5 in the model's fixed
\* point) and leaves an all-zero row as it is
normalize_L2(v) ==
    IF Norm(v) = 0 THEN v
    ELSE <<(v[1] * 5) \div Norm(v), (v[2] * 5) \div Norm(v)>>

\* A string is a sequence of tokens, a token a word or the blank " "; the
\* empty string is <<>>.

\* text_model.encode: the sentence embedding of a string
TextEncode(text) ==
    CASE text = <<"fever">> -> <<6, 8>>
      [] text = <<"stroke">> -> <<-4, 3>>
      [] text = <<"chest", " ", "pain">> -> <<10, 0>>
      [] OTHER -> <<0, 5>>

\* image_model.encode_image: the CLIP embedding of a decoded image
ClipEncodeImage(pix) ==
    CASE pix = "mri" -> <<-3, -4>>
      [] OTHER -> <<8, 6>>

\* image_model.encode_text: the CLIP embedding of a query string
ClipEncodeText(text) ==
    CASE text = <<"chest", " ", "pain">> -> <<4, 3>>
      [] OTHER -> <<0, -10>>

\* the query strings the engine is asked; <<>> is the empty query
Queries == {<<>>, <<"chest", " ", "pain">>}

\* faiss pads the positions it has no vector for with label -1 and the lowest
\* score; every inner product of the model lies above it
PadScore == -(26 * 26)

-----------------------------------------------------------------------------
(* loadData.py: embedding generation *)

\* the image file an item's file_path names, as the directories hold it now
FileAt(d, path) ==
    LET fs == d[path[1]].files
        hit == {i \in 1..Len(fs) : fs[i].loc = path[2] /\ fs[i].stem = path[3]
                                   /\ fs[i].ext = path[4]}
    IN  IF ~d[path[1]].exists \/ hit = {}
        THEN [found |-> FALSE, decodable |-> FALSE, pix |-> ""]
        ELSE LET f == fs[CHOOSE i \in hit : TRUE]
             IN  [found |-> TRUE, decodable |-> f.decodable, pix |-> f.pix]

\* loadData.py 363-382: the vector of one image; the zero vector when opening
\* or encoding it fails
ImageEmbedding(d, item) ==
    LET f == FileAt(d, item.file_path)
    IN  IF f.found /\ f.decodable THEN ClipEncodeImage(f.pix) ELSE ZeroVec

\* an embedding pass that drops the images it cannot decode
EmbedDecodableOnly(d, lm, data_items) ==
    IF ~lm.image THEN [raised |-> TRUE, value |-> <<>>]
    ELSE [raised |-> FALSE,
          value |-> LET ok == SelectSeq(data_items, LAMBDA it : ImageEmbedding(d, it) # ZeroVec)
                    IN  [i \in 1..Len(ok) |-> ImageEmbedding(d, ok[i])]]

\* loadData.py 354-384: generate_image_embeddings; [raised, value]
generate_image_embeddings(d, lm, data_items) ==
    IF ~lm.image THEN [raised |-> TRUE, value |-> <<>>]
    ELSE [raised |-> FALSE,
          value |-> [i \in 1..Len(data_items) |-> ImageEmbedding(d, data_items[i])]]

\* loadData.py 342-352: generate_text_embeddings; [raised, value]
generate_text_embeddings(lm, data_items, F) ==
    IF ~lm.text \/ "text_encode" \in F THEN [raised |-> TRUE, value |-> <<>>]
    ELSE [raised |-> FALSE,
          value |-> [i \in 1..Len(data_items) |-> TextEncode(data_items[i].content[2])]]

-----------------------------------------------------------------------------
(* searchEngine.py: the vector index and the cache directory *)

NoIndex == [set |-> FALSE, vecs |-> <<>>]

\* a file of the cache directory: ok is FALSE for a file a failed write left
\* truncated, which no reader can parse
NoFile == [exists |-> FALSE, ok |-> FALSE, data |-> <<>>]

GoodFile(data) == [exists |-> TRUE, ok |-> TRUE, data |-> data]

BadFile == [exists |-> TRUE, ok |-> FALSE, data |-> <<>>]

EmptyData == [csv |-> <<>>, text |-> <<>>, image |-> <<>>]

EmptyCache ==
    [text_index |-> NoFile, text_mapping |-> NoFile,
     image_index |-> NoFile, image_mapping |-> NoFile,
     data |-> [exists |-> FALSE, ok |-> FALSE, data |-> EmptyData, total_items |-> 0]]

\* the engine's mutable state as one value: e.ti / e.tm / e.ii / e.im are the
\* indexes and mappings, e.cache the cache directory, e.raised whether an
\* exception is propagating
Engine(ti, tm, ii, im, c) ==
    [ti |-> ti, tm |-> tm, ii |-> ii, im |-> im, cache |-> c, raised |-> FALSE]

Raise(e) == [e EXCEPT !.raised = TRUE]

\* faiss.IndexFlatIP(dimension) followed by normalize_L2 and add
IndexOf(embeddings) ==
    [set |-> TRUE, vecs |-> [i \in 1..Len(embeddings) |-> normalize_L2(embeddings[i])]]

\* json.dump(..., default=str) followed by json.load: a value json cannot
\* encode (numpy.int64) comes back as its string
JsonRoundTrip(item) ==
    [item EXCEPT !.metadata = IF @ = "numpy_int" THEN "str" ELSE @]

JsonItems(items) == [i \in 1..Len(items) |-> JsonRoundTrip(items[i])]

\* a build_text_index that gives up control between creating the index (171)
\* and assigning the mapping (178): the caller sees the index alone
BuildTextIndexSuspended(e, ld, lm, F) ==
    LET text_data == ld.csv \o ld.text
        emb == generate_text_embeddings(lm, text_data, F)
    IN  IF text_data = <<>> THEN e
        ELSE IF emb.raised THEN Raise(e)
        ELSE [e EXCEPT !.ti = IndexOf(emb.value)]

\* searchEngine.py 155-180: build_text_index
build_text_index(e, ld, lm, F) ==
    LET text_data == ld.csv \o ld.text
        emb == generate_text_embeddings(lm, text_data, F)
    IN  IF text_data = <<>> THEN e
        ELSE IF emb.raised THEN Raise(e)
        ELSE [e EXCEPT !.ti = IndexOf(emb.value), !.tm = text_data]

\* searchEngine.py 182-206: build_image_index
build_image_index(e, d, ld, lm) ==
    LET image_data == ld.image
        emb == generate_image_embeddings(d, lm, image_data)
    IN  IF image_data = <<>> THEN e
        ELSE IF emb.raised THEN Raise(e)
        ELSE [e EXCEPT !.ii = IndexOf(emb.value), !.im = image_data]

\* searchEngine.py 210-213: the text index and its mapping are written; a
\* write that fails leaves a truncated file behind
SaveText(e, F) ==
    IF ~e.ti.set THEN e
    ELSE IF "write_text_index" \in F
         THEN Raise([e EXCEPT !.cache.text_index = BadFile])
    ELSE LET e1 == [e EXCEPT !.cache.text_index = GoodFile(e.ti.vecs)]
         IN  IF "write_text_mapping" \in F
             THEN Raise([e1 EXCEPT !.cache.text_mapping = BadFile])
             ELSE [e1 EXCEPT !.cache.text_mapping = GoodFile(JsonItems(e.tm))]

\* searchEngine.py 215-218: the image index and its mapping are written
SaveImage(e, F) ==
    IF ~e.ii.set THEN e
    ELSE IF "write_image_index" \in F
         THEN Raise([e EXCEPT !.cache.image_index = BadFile])
    ELSE LET e1 == [e EXCEPT !.cache.image_index = GoodFile(e.ii.vecs)]
         IN  IF "write_image_mapping" \in F
             THEN Raise([e1 EXCEPT !.cache.image_mapping = BadFile])
             ELSE [e1 EXCEPT !.cache.image_mapping = GoodFile(JsonItems(e.im))]

\* searchEngine.py 208-220: save_indexes
save_indexes(e, F) ==
    LET e1 == SaveText(e, F)
    IN  IF e1.raised THEN e1 ELSE SaveImage(e1, F)

\* reading a cache file raises when it is missing, truncated or unreadable
ReadFails(file, fault, F) == ~file.exists \/ ~file.ok \/ fault \in F

\* searchEngine.py 226-229: [e, failed]
LoadText(e, F) ==
    IF ~e.cache.text_index.exists THEN [e |-> e, failed |-> FALSE]
    ELSE IF ReadFails(e.cache.text_index, "read_text_index", F)
         THEN [e |-> e, failed |-> TRUE]
    ELSE LET e1 == [e EXCEPT !.ti = [set |-> TRUE, vecs |-> e.cache.text_index.data]]
         IN  IF ReadFails(e.cache.text_mapping, "read_text_mapping", F)
             THEN [e |-> e1, failed |-> TRUE]
             ELSE [e |-> [e1 EXCEPT !.tm = e.cache.text_mapping.data], failed |-> FALSE]

\* searchEngine.py 232-235: [e, failed]
LoadImage(e, F) ==
    IF ~e.cache.image_index.exists THEN [e |-> e, failed |-> FALSE]
    ELSE IF ReadFails(e.cache.image_index, "read_image_index", F)
         THEN [e |-> e, failed |-> TRUE]
    ELSE LET e1 == [e EXCEPT !.ii = [set |-> TRUE, vecs |-> e.cache.image_index.data]]
         IN  IF ReadFails(e.cache.image_mapping, "read_image_mapping", F)
             THEN [e |-> e1, failed |-> TRUE]
             ELSE [e |-> [e1 EXCEPT !.im = e.cache.image_mapping.data], failed |-> FALSE]

\* a load_indexes without its except clause: a failed read propagates
LoadIndexesUncaught(e, F) ==
    LET t == LoadText(e, F)
        i == LoadImage(t.e, F)
    IN  IF t.failed THEN Raise(t.e) ELSE IF i.failed THEN Raise(i.e) ELSE i.e

\* searchEngine.py 222-240: load_indexes; the except clause swallows a failure
\* and keeps what was assigned before it
load_indexes(e, F) ==
    LET t == LoadText(e, F)
    IN  IF t.failed THEN t.e ELSE LoadImage(t.e, F).e

AllIndexFilesExist(c) ==
    /\ c.text_index.exists
    /\ c.image_index.exists
    /\ c.text_mapping.exists
    /\ c.image_mapping.exists

\* searchEngine.py 128-153: build_search_indexes (no document store configured)
build_search_indexes(e, d, ld, lm, force_rebuild, F) ==
    IF ~force_rebuild /\ AllIndexFilesExist(e.cache) THEN load_indexes(e, F)
    ELSE LET e1 == build_text_index(e, ld, lm, F)
             e2 == IF e1.raised THEN e1 ELSE build_image_index(e1, d, ld, lm)
         IN  IF e2.raised THEN e2 ELSE save_indexes(e2, F)

-----------------------------------------------------------------------------
(* searchEngine.py: queries *)

\* the position (1-based) of the best vector among cand: the highest inner
\* product, the lowest position among equals
BestOf(vecs, q, cand) ==
    CHOOSE i \in cand : \A j \in cand :
        \/ Dot(vecs[i], q) > Dot(vecs[j], q)
        \/ (Dot(vecs[i], q) = Dot(vecs[j], q) /\ i <= j)

\* faiss IndexFlatIP.search(query, k): k (score, label) pairs by decreasing
\* inner product, labels 0-based; the positions past the last vector are
\* padded with label -1
RECURSIVE TopHits(_, _, _, _)
TopHits(vecs, q, k, cand) ==
    IF k = 0 THEN <<>>
    ELSE IF cand = {}
         THEN <<[score |-> PadScore, idx |-> -1]>> \o TopHits(vecs, q, k - 1, cand)
         ELSE LET b == BestOf(vecs, q, cand)
              IN  <<[score |-> Dot(vecs[b], q), idx |-> b - 1]>>
                  \o TopHits(vecs, q, k - 1, cand \ {b})

IndexSearch(index, q, k) == TopHits(index.vecs, q, k, 1..Len(index.vecs))

SearchResult(item, score, search_type) ==
    [id |-> item.id, dataset |-> item.dataset, type |-> item.type,
     content |-> item.content, metadata |-> item.metadata,
     file_path |-> item.file_path, relevance_score |-> score,
     search_type |-> search_type]

\* Python's mapping[idx]: a negative idx counts from the end
PyIndex(mapping, idx) == IF idx >= 0 THEN mapping[idx + 1] ELSE mapping[Len(mapping) + idx + 1]

\* "if idx < len(mapping)" lets the hit through
HitPasses(mapping, hit) == hit.idx < Len(mapping)

\* searchEngine.py 341-356 / 377-392: the hits are turned into result records;
\* [raised, value], raised when mapping[idx] is an IndexError
RECURSIVE HitResults(_, _, _, _)
HitResults(mapping, hits, search_type, i) ==
    IF i > Len(hits) THEN [raised |-> FALSE, value |-> <<>>]
    ELSE IF ~HitPasses(mapping, hits[i]) THEN HitResults(mapping, hits, search_type, i + 1)
    ELSE IF hits[i].idx < 0 /\ Len(mapping) + hits[i].idx < 0
         THEN [raised |-> TRUE, value |-> <<>>]
    ELSE LET rest == HitResults(mapping, hits, search_type, i + 1)
         IN  [raised |-> rest.raised,
              value |-> <<SearchResult(PyIndex(mapping, hits[i].idx), hits[i].score,
                                       search_type)>> \o rest.value]

\* a search_text without the guard of 331-332: a missing index or model is
\* an AttributeError on None
SearchTextUnguarded(e, tmodel, query, top_k, F) ==
    IF ~e.ti.set \/ ~tmodel THEN [raised |-> TRUE, value |-> <<>>]
    ELSE IF "query_encode" \in F THEN [raised |-> TRUE, value |-> <<>>]
    ELSE HitResults(e.tm, IndexSearch(e.ti, normalize_L2(TextEncode(query)), top_k),
                    "text", 1)

\* searchEngine.py 329-358: search_text
search_text(e, tmodel, query, top_k, F) ==
    IF ~e.ti.set \/ ~tmodel THEN [raised |-> FALSE, value |-> <<>>]
    ELSE IF "query_encode" \in F THEN [raised |-> TRUE, value |-> <<>>]
    ELSE HitResults(e.tm, IndexSearch(e.ti, normalize_L2(TextEncode(query)), top_k),
                    "text", 1)

\* searchEngine.py 360-394: search_images
search_images(e, imodel, query, top_k, F) ==
    IF ~e.ii.set \/ ~imodel THEN [raised |-> FALSE, value |-> <<>>]
    ELSE IF "query_encode" \in F THEN [raised |-> TRUE, value |-> <<>>]
    ELSE HitResults(e.im, IndexSearch(e.ii, normalize_L2(ClipEncodeText(query)), top_k),
                    "image", 1)

\* list.sort(key=relevance_score, reverse=True): a stable sort, so x goes
\* behind the results that score at least as much
RECURSIVE InsertByScore(_, _)
InsertByScore(s, x) ==
    IF s = <<>> THEN <<x>>
    ELSE IF Head(s).relevance_score >= x.relevance_score
         THEN <<Head(s)>> \o InsertByScore(Tail(s), x)
         ELSE <<x>> \o s

RECURSIVE SortByScore(_, _)
SortByScore(s, n) ==
    IF n = 0 THEN <<>> ELSE InsertByScore(SortByScore(s, n - 1), s[n])

\* searchEngine.py 325-327: sort by relevance, keep the first top_k
RankAndCut(results, top_k) ==
    LET sorted == SortByScore(results, Len(results))
    IN  SubSeq(sorted, 1, Min2(top_k, Len(sorted)))

\* searchEngine.py 316: the text index is queried for 'csv' and for 'text'
WantsText(search_types) == "csv" \in search_types \/ "text" \in search_types

\* searchEngine.py 298-327: search
search(e, tmodel, imodel, query, top_k, search_types, F) ==
    LET t == IF WantsText(search_types)
             THEN search_text(e, tmodel, query, top_k, F)
             ELSE [raised |-> FALSE, value |-> <<>>]
        i == IF "image" \in search_types /\ ~t.raised
             THEN search_images(e, imodel, query, top_k, F)
             ELSE [raised |-> FALSE, value |-> <<>>]
    IN  IF t.raised \/ i.raised THEN [raised |-> TRUE, value |-> <<>>]
        ELSE [raised |-> FALSE, value |-> RankAndCut(t.value \o i.value, top_k)]

-----------------------------------------------------------------------------
(* loadData.py: the data cache;  searchEngine.py: initialization *)

\* searchEngine.py 118-120: the three loaders read the directories
LoadAll(d) ==
    [csv |-> load_csv_datasets(d), text |-> load_text_datasets(d),
     image |-> load_image_datasets(d)]

\* loadData.py 111-126: initialize_models; the text model is assigned before
\* the image model is loaded
initialize_models(lm, F) ==
    IF "load_text_model" \in F THEN [ok |-> FALSE, lm |-> lm]
    ELSE IF "load_clip_model" \in F THEN [ok |-> FALSE, lm |-> [lm EXCEPT !.text = TRUE]]
    ELSE [ok |-> TRUE, lm |-> [text |-> TRUE, image |-> TRUE]]

\* a load_data_cache that reports success on a missing cache file
LoadDataCacheMissingOk(c, ld, F) ==
    IF ~c.data.exists THEN [ok |-> TRUE, data |-> ld]
    ELSE IF ~c.data.ok \/ "read_data_cache" \in F THEN [ok |-> FALSE, data |-> ld]
    ELSE [ok |-> TRUE, data |-> c.data.data]

\* loadData.py 401-418: load_data_cache; [ok, data]
load_data_cache(c, ld, F) ==
    IF ~c.data.exists THEN [ok |-> FALSE, data |-> ld]
    ELSE IF ~c.data.ok \/ "read_data_cache" \in F THEN [ok |-> FALSE, data |-> ld]
    ELSE [ok |-> TRUE, data |-> c.data.data]

\* loadData.py 392: sum(len(data) for data in self.loaded_data.values())
TotalItems(ld) == Len(ld.csv) + Len(ld.text) + Len(ld.image)

\* a save_data_cache that writes the cache as save_indexes writes a mapping,
\* with json.dump(default=str)
SaveDataCacheAsJson(e, ld, F) ==
    IF "write_data_cache" \in F
    THEN Raise([e EXCEPT !.cache.data = [exists |-> TRUE, ok |-> FALSE, data |-> EmptyData,
                                         total_items |-> 0]])
    ELSE [e EXCEPT !.cache.data =
             [exists |-> TRUE, ok |-> TRUE,
              data |-> [csv |-> JsonItems(ld.csv), text |-> JsonItems(ld.text),
                        image |-> JsonItems(ld.image)],
              total_items |-> TotalItems(ld)]]

\* loadData.py 386-399: save_data_cache; the engine with the cache file
\* written: pickle keeps every value of loaded_data as it is, and a write that
\* fails leaves a truncated file
save_data_cache(e, ld, F) ==
    IF "write_data_cache" \in F
    THEN Raise([e EXCEPT !.cache.data = [exists |-> TRUE, ok |-> FALSE, data |-> EmptyData,
                                         total_items |-> 0]])
    ELSE [e EXCEPT !.cache.data = [exists |-> TRUE, ok |-> TRUE, data |-> ld,
                                   total_items |-> TotalItems(ld)]]

\* an initialize_search_engine that looks for cached data (113-121) before it
\* checks the models (106-107)
InitializeDataFirst(e, d, ld, lm, force_rebuild, F) ==
    LET m == initialize_models(lm, F)
        cached == IF force_rebuild THEN [ok |-> FALSE, data |-> ld]
                  ELSE load_data_cache(e.cache, ld, F)
        ld1 == IF cached.ok THEN cached.data ELSE LoadAll(d)
        e1 == IF cached.ok THEN e ELSE save_data_cache(e, ld1, F)
    IN  IF ~m.ok THEN [e |-> Raise(e1), lm |-> m.lm, ld |-> ld1, models |-> FALSE]
        ELSE IF e1.raised THEN [e |-> e1, lm |-> m.lm, ld |-> ld1, models |-> TRUE]
        ELSE [e |-> build_search_indexes(e1, d, ld1, m.lm, force_rebuild, F),
              lm |-> m.lm, ld |-> ld1, models |-> TRUE]

\* searchEngine.py 101-126: initialize_search_engine;
\* [e, lm, ld, models]: the engine, the loader's models and data, and whether
\* the engine's own model attributes were assigned
initialize_search_engine(e, d, ld, lm, force_rebuild, F) ==
    LET m == initialize_models(lm, F)
        cached == IF force_rebuild THEN [ok |-> FALSE, data |-> ld]
                  ELSE load_data_cache(e.cache, ld, F)
        ld1 == IF cached.ok THEN cached.data ELSE LoadAll(d)
        e1 == IF cached.ok THEN e ELSE save_data_cache(e, ld1, F)
    IN  IF ~m.ok THEN [e |-> Raise(e), lm |-> m.lm, ld |-> ld, models |-> FALSE]
        ELSE IF e1.raised THEN [e |-> e1, lm |-> m.lm, ld |-> ld1, models |-> TRUE]
        ELSE [e |-> build_search_indexes(e1, d, ld1, m.lm, force_rebuild, F),
              lm |-> m.lm, ld |-> ld1, models |-> TRUE]

-----------------------------------------------------------------------------
(* minimal_search_engine.py: the keyword fallback *)

\* the words queries are made of; " " separates words
Vocabulary == {"chest", "pain", "heart"}

\* top_k of fallback_search when the caller gives none, and the cut of
\* basic_medical_search
DefaultTopK == 5

\* minimal_search_engine.py 20-85: sample_data; content lists the words of
\* Vocabulary that occur in the item's content string
SampleData ==
    << [dataset |-> "medical-knowledge",
        keywords |-> {"chest", "pain", "heart", "cardiac", "reflux", "muscle"},
        content |-> {"chest", "pain", "heart"}],
       [dataset |-> "symptom-checker",
        keywords |-> {"fever", "cough", "breath", "respiratory", "infection", "pneumonia"},
        content |-> {}],
       [dataset |-> "diabetes-info",
        keywords |-> {"diabetes", "thirst", "urination", "vision", "blood", "sugar", "glucose"},
        content |-> {}],
       [dataset |-> "cardiology",
        keywords |-> {"heart", "palpitations", "anxiety", "caffeine", "arrhythmia", "rhythm"},
        content |-> {"heart"}],
       [dataset |-> "neurology",
        keywords |-> {"headache", "migraine", "tension", "pain", "head", "neurological"},
        content |-> {}],
       [dataset |-> "dermatology",
        keywords |-> {"skin", "rash", "allergy", "infection", "dermatitis", "eczema"},
        content |-> {}],
       [dataset |-> "gastroenterology",
        keywords |-> {"abdominal", "pain", "stomach", "nausea", "digestive", "gastric"},
        content |-> {"pain"}],
       [dataset |-> "psychiatry",
        keywords |-> {"depression", "anxiety", "mood", "mental", "sadness", "stress"},
        content |-> {}] >>

\* re.findall(r'\b\w+\b', query) and str.split(): the maximal runs of word
\* tokens, each run one word (a sequence of tokens written without a blank)
RECURSIVE SplitWords(_, _)
SplitWords(query, word) ==
    IF query = <<>> THEN (IF word = <<>> THEN <<>> ELSE <<word>>)
    ELSE IF Head(query) = " "
         THEN (IF word = <<>> THEN <<>> ELSE <<word>>) \o SplitWords(Tail(query), <<>>)
         ELSE SplitWords(Tail(query), Append(word, Head(query)))

QueryWords(query) == SplitWords(query, <<>>)

\* "word in item['keywords']": the word is one of the listed keywords
InKeywords(word, item) == Len(word) = 1 /\ word[1] \in item.keywords

\* "word in content_lower": the word is a substring of the content
InContent(word, item) == Len(word) = 1 /\ word[1] \in item.content

RECURSIVE SumSeq(_)
SumSeq(s) == IF s = <<>> THEN 0 ELSE Head(s) + SumSeq(Tail(s))

\* minimal_search_engine.py 98-112: twice the score of an item
KeywordScore2(words, item) ==
    LET Pts(w) == IF InKeywords(w, item) THEN 4 ELSE IF InContent(w, item) THEN 2 ELSE 0
        Hit(w) == IF InContent(w, item) THEN 1 ELSE 0
        base == SumSeq([i \in 1..Len(words) |-> Pts(words[i])])
        word_matches == SumSeq([i \in 1..Len(words) |-> Hit(words[i])])
    IN  IF base > 0 /\ word_matches > 1 THEN base + word_matches ELSE base

\* minimal_search_engine.py 114-124: the scored items in sample order;
\* relevance_score is min(score / 10, 1.0), here in twentieths
RECURSIVE ScoredResults(_, _)
ScoredResults(words, n) ==
    IF n = 0 THEN <<>>
    ELSE ScoredResults(words, n - 1)
         \o (IF KeywordScore2(words, SampleData[n]) > 0
             THEN <<[dataset |-> SampleData[n].dataset,
                     relevance_score |-> Min2(KeywordScore2(words, SampleData[n]), 20),
                     search_method |-> "keyword_fallback"]>>
             ELSE <<>>)

\* minimal_search_engine.py 13-128: fallback_search
fallback_search(query, top_k) ==
    IF QueryWords(query) = <<>> THEN <<>>
    ELSE RankAndCut(ScoredResults(QueryWords(query), Len(SampleData)), top_k)

\* minimal_search_engine.py 202-213: calculate_basic_relevance, in tenths; a
\* text file is [dataset, counts], counts[w] the occurrences of word w in it
BasicRelevance(file, words) ==
    LET Cnt(w) == IF Len(w) = 1 THEN file.counts[w[1]] ELSE 0
    IN  Min2(SumSeq([i \in 1..Len(words) |-> Cnt(words[i])]), 10)

\* minimal_search_engine.py 151: any(word in content for word in query.split())
FileMatches(file, words) ==
    \E i \in 1..Len(words) : Len(words[i]) = 1 /\ file.counts[words[i][1]] > 0

RECURSIVE FileResults(_, _, _)
FileResults(files, words, n) ==
    IF n = 0 THEN <<>>
    ELSE FileResults(files, words, n - 1)
         \o (IF FileMatches(files[n], words)
             THEN <<[dataset |-> files[n].dataset,
                     relevance_score |-> BasicRelevance(files[n], words),
                     search_method |-> "file_search"]>>
             ELSE <<>>)

\* minimal_search_engine.py 130-175: basic_medical_search; dir_exists is
\* "datasets_dir is given and exists", files the text files found under it
basic_medical_search(query, dir_exists, files) ==
    IF ~dir_exists THEN fallback_search(query, DefaultTopK)
    ELSE RankAndCut(FileResults(files, QueryWords(query), Len(files)), DefaultTopK)

-----------------------------------------------------------------------------
(* The environment of the engine specification *)

RowA == [kind |-> "ok", text |-> <<"fever">>, dtype |-> "numpy_int"]
RowB == [kind |-> "ok", text |-> <<"stroke">>, dtype |-> "native"]
ImgP == [loc |-> "glioma_tumor", stem |-> "p", ext |-> ".jpg",
         valid |-> TRUE, decodable |-> TRUE, pix |-> "mri"]
\* an image that passes verify() when it is loaded and cannot be decoded when
\* it is embedded (a truncated file)
ImgQ == [loc |-> "glioma_tumor", stem |-> "q", ext |-> ".png",
         valid |-> TRUE, decodable |-> FALSE, pix |-> "mri"]

\* the dataset directories holding n_text of the records RowA, RowB and, when
\* n_images is 2, the images ImgP, ImgQ
Snapshot(n_text, n_images) ==
    [ds \in AllDatasets |->
        CASE ds = "diabetes" /\ n_text >= 1 ->
                 [exists |-> TRUE, cats |-> {}, files |-> << <<RowA>> >>]
          [] ds = "pubmedqa" /\ n_text >= 2 ->
                 [exists |-> TRUE, cats |-> {}, files |-> << <<RowB>> >>]
          [] ds = "brain-scans" /\ n_images >= 1 ->
                 [exists |-> TRUE, cats |-> {"glioma_tumor"}, files |-> <<ImgP, ImgQ>>]
          [] OTHER -> MissingDir]

EngineDirs == {Snapshot(t, i) : t \in 0..2, i \in {0, 2}}

SearchTypes == {"csv", "text", "image"}
\* the search_types arguments the callers pass: none, one modality, all (the
\* default of search, searchEngine.py 298)
SearchTypeSets == {{}, {"csv"}, {"image"}, SearchTypes}

NoFaults == {}

RECURSIVE SeqsUpTo(_, _)
SeqsUpTo(S, n) ==
    IF n = 0 THEN {<<>>}
    ELSE SeqsUpTo(S, n - 1)
         \cup {Append(q, t) : q \in {x \in SeqsUpTo(S, n - 1) : Len(x) = n - 1}, t \in S}

FallbackQueries == SeqsUpTo(Vocabulary \cup {" "}, MaxQueryLen)

TextFile1 == [dataset |-> "notes", counts |-> [w \in Vocabulary |-> IF w = "pain" THEN 2 ELSE 0]]
TextFile2 == [dataset |-> "guides", counts |-> [w \in Vocabulary |-> 1]]

TextFileSets == {<<>>, <<TextFile1>>, <<TextFile1, TextFile2>>}

-----------------------------------------------------------------------------
(* State machine *)

NoRet == [op |-> "none", args |-> <<>>, faults |-> {}, raised |-> FALSE, value |-> <<>>]

\* faults is the set of library calls and file operations that failed during
\* the call
Ret(op, args, F, raised, value) ==
    [op |-> op, args |-> args, faults |-> F, raised |-> raised, value |-> value]

\* searchEngine.py 63-69: no mongo_uri was given, self.collection is None
NoStore == [configured |-> FALSE, docs |-> {}]

\* no coroutine is suspended
NoTasks == [build |-> "idle", force_rebuild |-> FALSE, search |-> <<>>]

FreshEngine ==
    /\ text_model = FALSE
    /\ image_model = FALSE
    /\ text_index = NoIndex
    /\ image_index = NoIndex
    /\ text_mapping = <<>>
    /\ image_mapping = <<>>

FreshLoader ==
    /\ loaded_data = EmptyData
    /\ loader_models = [text |-> FALSE, image |-> FALSE]

\* searchEngine.py 41-76 and loadData.py 42-58: the state after construction,
\* on an empty cache directory
Init ==
    /\ dirs \in EngineDirs
    /\ FreshLoader
    /\ FreshEngine
    /\ cache = EmptyCache
    /\ ret = NoRet
    /\ tasks = NoTasks
    /\ store = NoStore

\* the engine's indexes, mappings and cache directory as one value
Cur == Engine(text_index, text_mapping, image_index, image_mapping, cache)

Assign(e) ==
    /\ text_index' = e.ti
    /\ text_mapping' = e.tm
    /\ image_index' = e.ii
    /\ image_mapping' = e.im
    /\ cache' = e.cache

\* a new process constructs a MedicalSearchEngine on the same directories
NewEngine ==
    /\ loaded_data' = EmptyData
    /\ loader_models' = [text |-> FALSE, image |-> FALSE]
    /\ text_model' = FALSE
    /\ image_model' = FALSE
    /\ text_index' = NoIndex
    /\ image_index' = NoIndex
    /\ text_mapping' = <<>>
    /\ image_mapping' = <<>>
    /\ ret' = Ret("new", <<>>, NoFaults, FALSE, <<>>)
    /\ UNCHANGED <<tasks, store, dirs, cache>>

\* the dataset directories change on disk
DatasetsChange ==
    /\ \E d \in EngineDirs \ {dirs} : dirs' = d
    /\ UNCHANGED <<tasks, store, loaded_data, loader_models, engine_vars, cache, ret>>

InitializeSearchEngine(F) ==
    \E force_rebuild \in BOOLEAN :
        \E r \in {initialize_search_engine(Cur, dirs, loaded_data, loader_models,
                                           force_rebuild, F)} :
            /\ Assign(r.e)
            /\ loader_models' = r.lm
            /\ loaded_data' = r.ld
            /\ text_model' = (IF r.models THEN r.lm.text ELSE text_model)
            /\ image_model' = (IF r.models THEN r.lm.image ELSE image_model)
            /\ ret' = Ret("initialize_search_engine", <<force_rebuild>>, F, r.e.raised, <<>>)
            /\ UNCHANGED <<tasks, store, dirs>>

BuildSearchIndexes(F) ==
    \E force_rebuild \in BOOLEAN :
        \E e \in {build_search_indexes(Cur, dirs, loaded_data, loader_models,
                                       force_rebuild, F)} :
            /\ Assign(e)
            /\ ret' = Ret("build_search_indexes", <<force_rebuild>>, F, e.raised, <<>>)
            /\ UNCHANGED <<tasks, store, dirs, loaded_data, loader_models, text_model, image_model>>

BuildTextIndex(F) ==
    \E e \in {build_text_index(Cur, loaded_data, loader_models, F)} :
        /\ Assign(e)
        /\ ret' = Ret("build_text_index", <<>>, F, e.raised, <<>>)
        /\ UNCHANGED <<tasks, store, dirs, loaded_data, loader_models, text_model, image_model>>

BuildImageIndex ==
    \E e \in {build_image_index(Cur, dirs, loaded_data, loader_models)} :
        /\ Assign(e)
        /\ ret' = Ret("build_image_index", <<>>, NoFaults, e.raised, <<>>)
        /\ UNCHANGED <<tasks, store, dirs, loaded_data, loader_models, text_model, image_model>>

SaveIndexes(F) ==
    \E e \in {save_indexes(Cur, F)} :
        /\ Assign(e)
        /\ ret' = Ret("save_indexes", <<>>, F, e.raised, <<>>)
        /\ UNCHANGED <<tasks, store, dirs, loaded_data, loader_models, text_model, image_model>>

LoadIndexes(F) ==
    \E e \in {load_indexes(Cur, F)} :
        /\ Assign(e)
        /\ ret' = Ret("load_indexes", <<>>, F, e.raised, <<>>)
        /\ UNCHANGED <<tasks, store, dirs, loaded_data, loader_models, text_model, image_model>>

\* a search that consumes what it returns: the text mapping is emptied
SearchConsuming(F, TypeSets) ==
    \E query \in Queries, top_k \in 1..MaxTopK, search_types \in TypeSets :
        \E r \in {search(Cur, text_model, image_model, query, top_k, search_types, F)} :
            /\ ret' = Ret("search", <<query, top_k, search_types>>, F, r.raised, r.value)
            /\ text_mapping' = <<>>
            /\ UNCHANGED <<tasks, store, dirs, loaded_data, loader_models, text_model, image_model,
                           text_index, image_index, image_mapping, cache>>

\* search is called with one of the search_types arguments of TypeSets
Search(F, TypeSets) ==
    \E query \in Queries, top_k \in 1..MaxTopK, search_types \in TypeSets :
        \E r \in {search(Cur, text_model, image_model, query, top_k, search_types, F)} :
            /\ ret' = Ret("search", <<query, top_k, search_types>>, F, r.raised, r.value)
            /\ UNCHANGED <<tasks, store, dirs, loaded_data, loader_models, engine_vars, cache>>

SearchText(F) ==
    \E query \in Queries, top_k \in 1..MaxTopK :
        \E r \in {search_text(Cur, text_model, query, top_k, F)} :
            /\ ret' = Ret("search_text", <<query, top_k>>, F, r.raised, r.value)
            /\ UNCHANGED <<tasks, store, dirs, loaded_data, loader_models, engine_vars, cache>>

SearchImages(F) ==
    \E query \in Queries, top_k \in 1..MaxTopK :
        \E r \in {search_images(Cur, image_model, query, top_k, F)} :
            /\ ret' = Ret("search_images", <<query, top_k>>, F, r.raised, r.value)
            /\ UNCHANGED <<tasks, store, dirs, loaded_data, loader_models, engine_vars, cache>>

\* the loader embeds the images it has loaded
GenerateImageEmbeddings ==
    \E r \in {generate_image_embeddings(dirs, loader_models, loaded_data.image)} :
        /\ ret' = Ret("generate_image_embeddings", <<loaded_data.image>>, NoFaults,
                      r.raised, r.value)
        /\ UNCHANGED <<tasks, store, dirs, loaded_data, loader_models, engine_vars, cache>>

\* the loader embeds the records it has loaded
GenerateTextEmbeddings ==
    \E r \in {generate_text_embeddings(loader_models, loaded_data.csv \o loaded_data.text,
                                        NoFaults)} :
        /\ ret' = Ret("generate_text_embeddings", <<loaded_data.csv \o loaded_data.text>>,
                      NoFaults, r.raised, r.value)
        /\ UNCHANGED <<tasks, store, dirs, loaded_data, loader_models, engine_vars, cache>>

\* the keyword fallback stands in for the engine where the ML libraries are
\* missing, so it runs in a process that never built an engine
NoEngineBuilt == FreshEngine /\ FreshLoader /\ cache = EmptyCache

FallbackSearch ==
    /\ NoEngineBuilt
    /\ \E query \in FallbackQueries, top_k \in 1..MaxTopK :
          ret' = Ret("fallback_search", <<query, top_k>>, NoFaults, FALSE,
                     fallback_search(query, top_k))
    /\ UNCHANGED <<tasks, store, dirs, loaded_data, loader_models, engine_vars, cache>>

BasicMedicalSearch ==
    /\ NoEngineBuilt
    /\ \E query \in FallbackQueries, dir_exists \in BOOLEAN, files \in TextFileSets :
          ret' = Ret("basic_medical_search", <<query, dir_exists, files>>, NoFaults, FALSE,
                     basic_medical_search(query, dir_exists, files))
    /\ UNCHANGED <<tasks, store, dirs, loaded_data, loader_models, engine_vars, cache>>

Next ==
    \/ NewEngine
    \/ DatasetsChange
    \/ InitializeSearchEngine(NoFaults)
    \/ BuildSearchIndexes(NoFaults)
    \/ BuildTextIndex(NoFaults)
    \/ BuildImageIndex
    \/ SaveIndexes(NoFaults)
    \/ LoadIndexes(NoFaults)
    \/ Search(NoFaults, SearchTypeSets)
    \/ SearchText(NoFaults)
    \/ SearchImages(NoFaults)
    \/ FallbackSearch
    \/ BasicMedicalSearch

\* the engine and the fallback with every library call and file operation
\* succeeding
Spec == Init /\ [][Next]_vars

-----------------------------------------------------------------------------
(* Properties of the engine *)

\* the text index holds one vector per mapping entry, vector i the normalized
\* embedding of entry i's content
TextAligned ==
    text_index.set =>
        /\ Len(text_index.vecs) = Len(text_mapping)
        /\ \A i \in 1..Len(text_mapping) :
              text_index.vecs[i] = normalize_L2(TextEncode(text_mapping[i].content[2]))

\* the image index holds one vector per mapping entry, vector i the normalized
\* embedding of entry i's image or the zero vector of a failed decode
ImageAligned ==
    image_index.set =>
        /\ Len(image_index.vecs) = Len(image_mapping)
        /\ \A i \in 1..Len(image_mapping) :
              image_index.vecs[i] \in
                  {normalize_L2(ClipEncodeImage(image_mapping[i].content[2])), ZeroVec}

\* C1: under any sequence of build_search_indexes, build_text_index,
\* build_image_index, save_indexes and load_indexes, every modality whose
\* index is set has as many vectors as mapping entries, and vector i is the
\* embedding of mapping entry i.
C1_IndexMappingAligned == TextAligned /\ ImageAligned

\* what a caller compares two result lists by: the items, their order, their
\* scores
Ranking(results) ==
    [i \in 1..Len(results) |-> <<results[i].id, results[i].relevance_score>>]

\* an engine as constructed (searchEngine.py 41-76) on cache directory c that
\* then calls load_indexes
FreshLoaded(c) == load_indexes(Engine(NoIndex, <<>>, NoIndex, <<>>, c), NoFaults)

\* C2: after save_indexes succeeds in a built engine, a fresh engine that
\* calls load_indexes on the same cache directory returns, for every query and
\* top_k, the same top-k results (same items, same order, same scores) as the
\* engine that saved.
C2_RoundTripSameTopK ==
    (ret.op = "save_indexes" /\ ~ret.raised /\ text_index.set
     /\ text_model /\ image_model) =>
        \A query \in Queries, top_k \in 1..MaxTopK :
            Ranking(search(FreshLoaded(cache), TRUE, TRUE, query, top_k,
                           SearchTypes, NoFaults).value)
            = Ranking(search(Cur, text_model, image_model, query, top_k,
                             SearchTypes, NoFaults).value)

\* one result per vector of the index with its inner product with q: the
\* hits an exhaustive scan of the index finds
ScanHits(index, mapping, q, search_type) ==
    [p \in 1..Min2(Len(index.vecs), Len(mapping)) |->
        SearchResult(mapping[p], Dot(index.vecs[p], q), search_type)]

\* the text-index hits and the image-index hits of a query, for the
\* modalities search_types asks for
IndexHits(query, search_types) ==
    (IF WantsText(search_types) /\ text_index.set /\ text_model
     THEN ScanHits(text_index, text_mapping, normalize_L2(TextEncode(query)), "text")
     ELSE <<>>)
    \o (IF "image" \in search_types /\ image_index.set /\ image_model
        THEN ScanHits(image_index, image_mapping, normalize_L2(ClipEncodeText(query)),
                      "image")
        ELSE <<>>)

\* v picks distinct hits of all, in non-increasing score order, and no hit it
\* leaves out scores strictly higher than one it returns
IsRankedMergeOf(v, all) ==
    /\ \A j \in 1..(Len(v) - 1) : v[j].relevance_score >= v[j + 1].relevance_score
    /\ \E f \in [1..Len(v) -> 1..Len(all)] :
          /\ \A a, b \in 1..Len(v) : f[a] = f[b] => a = b
          /\ \A j \in 1..Len(v) : v[j] = all[f[j]]
          /\ \A p \in (1..Len(all)) \ {f[j] : j \in 1..Len(v)} :
                \A j \in 1..Len(v) : all[p].relevance_score <= v[j].relevance_score

\* C3: search returns at most top_k results, the merge of the text-index hits
\* and the image-index hits in non-increasing relevance_score order, and leaves
\* out no hit that scores strictly higher than a returned one.
C3_SearchRankedMerge ==
    (ret.op = "search" /\ ~ret.raised) =>
        /\ Len(ret.value) <= ret.args[2]
        /\ IsRankedMergeOf(ret.value, IndexHits(ret.args[1], ret.args[3]))

\* C4: a query with the empty string never raises and returns an empty or
\* default result set (at most top_k results from search, none from the
\* keyword fallback), in any engine state.
C4_EmptyQueryNeverRaises ==
    /\ (ret.op = "search" /\ ret.args[1] = <<>> /\ ret.faults = {}) =>
           ~ret.raised /\ Len(ret.value) <= ret.args[2]
    /\ (ret.op \in {"fallback_search", "basic_medical_search"} /\ ret.args[1] = <<>>) =>
           ~ret.raised /\ ret.value = <<>>

\* the result is an image whose stored vector is the all-zero fallback
IsZeroItem(r) ==
    /\ r.search_type = "image"
    /\ \E p \in 1..Min2(Len(image_mapping), Len(image_index.vecs)) :
          image_mapping[p].id = r.id /\ image_index.vecs[p] = ZeroVec

C10_ResultsOfRequestedTypes ==
    (ret.op = "search" /\ ~ret.raised /\ ret.args[3] # {}) =>
        \A j \in 1..Len(ret.value) : ret.value[j].type \in ret.args[3]

QueryOps == {"search", "search_text", "search_images"}

\* what the query recorded in r returns on the engine as it is now
QueryResult(r) ==
    CASE r.op = "search" ->
             search(Cur, text_model, image_model, r.args[1], r.args[2], r.args[3], r.faults)
      [] r.op = "search_text" -> search_text(Cur, text_model, r.args[1], r.args[2], r.faults)
      [] OTHER -> search_images(Cur, image_model, r.args[1], r.args[2], r.faults)

\* C11: queries are stateless: search, search_text and search_images leave
\* text_index, image_index, text_mapping, image_mapping and loaded_data
\* unchanged, so a query after any sequence of queries returns what it returns
\* when issued alone on the same engine state.
C11_QueriesStateless ==
    [][(ret' # ret /\ ret'.op \in QueryOps) =>
          /\ UNCHANGED <<text_index, image_index, text_mapping, image_mapping, loaded_data>>
          /\ ret'.value = QueryResult(ret').value
          /\ ret'.raised = QueryResult(ret').raised]_vars

\* a query returned results from a built engine right after another query
C11_Witness ==
    /\ ret.op = "search_images"
    /\ Len(ret.value) = 2
    /\ text_index.set
    /\ Len(text_mapping) = 2

TextUnavailable == ~text_index.set \/ ~text_model
ImageUnavailable == ~image_index.set \/ ~image_model

\* C13: on an engine whose index or model of a modality is not set,
\* search_text / search_images return [] without raising, and search returns
\* what the other modality alone returns (nothing for a modality that was not
\* requested or is not available either)
C13_UnavailableModalityIsEmpty ==
    /\ (ret.op = "search_text" /\ TextUnavailable) => (~ret.raised /\ ret.value = <<>>)
    /\ (ret.op = "search_images" /\ ImageUnavailable) => (~ret.raised /\ ret.value = <<>>)
    /\ (ret.op = "search" /\ TextUnavailable) =>
          /\ ~ret.raised
          /\ ret.value = IF "image" \in ret.args[3]
                         THEN search_images(Cur, image_model, ret.args[1], ret.args[2],
                                            NoFaults).value
                         ELSE <<>>
    /\ (ret.op = "search" /\ ImageUnavailable) =>
          /\ ~ret.raised
          /\ ret.value = IF WantsText(ret.args[3])
                         THEN search_text(Cur, text_model, ret.args[1], ret.args[2],
                                          NoFaults).value
                         ELSE <<>>

\* search over all types on an engine with images and no text index
C13_Witness ==
    /\ ret.op = "search"
    /\ ret.args[3] = SearchTypes
    /\ ~text_index.set
    /\ ~ImageUnavailable
    /\ Len(ret.value) = 2
    /\ \A i \in 1..Len(ret.value) : ret.value[i].search_type = "image"

\* the results are real hits of index: none stands for a padding position,
\* there are no more of them than vectors, and no item occurs twice
RealHits(value, index) ==
    /\ Len(value) <= Len(index.vecs)
    /\ \A i \in 1..Len(value) : value[i].relevance_score # PadScore
    /\ \A i, j \in 1..Len(value) : i # j => value[i].id # value[j].id

\* C15: every result of search_text / search_images comes from a hit with
\* 0 <= idx < number of vectors; with top_k above the number of vectors the
\* results are at most as many as the vectors and no item occurs twice
C15_ResultsAreRealHits ==
    /\ (ret.op = "search_text" /\ ~ret.raised) => RealHits(ret.value, text_index)
    /\ (ret.op = "search_images" /\ ~ret.raised) => RealHits(ret.value, image_index)

\* a completed build has saved an index to the cache directory
SavedBuild == cache.text_index.exists \/ cache.image_index.exists

\* C16: once a build has been saved, every build_search_indexes(force_rebuild
\* = False) on that directory loads the saved indexes instead of rebuilding,
\* whichever modalities the build had: the engine ends as load_indexes leaves it
C16_SavedBuildIsReused ==
    [][(ret'.op = "build_search_indexes" /\ ~ret'.args[1] /\ SavedBuild) =>
          LET loaded == load_indexes(Cur, NoFaults)
          IN  /\ ~ret'.raised
              /\ text_index' = loaded.ti
              /\ text_mapping' = loaded.tm
              /\ image_index' = loaded.ii
              /\ image_mapping' = loaded.im
              /\ cache' = cache]_vars

\* index, mapping and the two saved files hold exactly data: one vector per
\* item, the files those of index and mapping; nothing, in memory or on disk,
\* for no data
Describes(data, index, mapping, index_file, mapping_file) ==
    /\ mapping = data
    /\ Len(index.vecs) = Len(data)
    /\ IF data = <<>>
       THEN /\ index_file.exists => index_file.data = <<>>
            /\ mapping_file.exists => mapping_file.data = <<>>
       ELSE /\ index.set
            /\ index_file = GoodFile(index.vecs)
            /\ mapping_file = GoodFile(JsonItems(data))

\* C17: after build_search_indexes(force_rebuild=True), from any prior state,
\* the text mapping is loaded_data csv + text, the image mapping is loaded_data
\* image, and the indexes and the saved files describe exactly those; nothing
\* of an earlier build survives for a modality that is now empty
C17_ForcedRebuildIsExact ==
    (ret.op = "build_search_indexes" /\ ret.args[1] /\ ~ret.raised) =>
        /\ Describes(loaded_data.csv \o loaded_data.text, text_index, text_mapping,
                     cache.text_index, cache.text_mapping)
        /\ TextAligned
        /\ Describes(loaded_data.image, image_index, image_mapping,
                     cache.image_index, cache.image_mapping)
        /\ ImageAligned

-----------------------------------------------------------------------------
(* The engine with failing library calls and file operations *)

\* the calls that can fail, by the operation that makes them
ModelFaults == {"load_text_model", "load_clip_model"}
DataCacheFaults == {"read_data_cache", "write_data_cache"}
WriteFaults == {"write_text_index", "write_text_mapping",
                "write_image_index", "write_image_mapping"}
ReadFaults == {"read_text_index", "read_text_mapping",
               "read_image_index", "read_image_mapping"}
EncodeFaults == {"text_encode"}
QueryFaults == {"query_encode"}

\* no failure, or one failing call out of S
UpToOne(S) == {{}} \cup {{f} : f \in S}

RowBad == [kind |-> "bad", text |-> <<>>, dtype |-> "native"]

\* Snapshot(1, 2) with a stroke file that has a malformed line
BrokenSnapshot ==
    [Snapshot(1, 2) EXCEPT !["stroke"] =
        [exists |-> TRUE, cats |-> {}, files |-> << <<RowB, RowBad>> >>]]

FaultDirs == {Snapshot(1, 2), BrokenSnapshot}

InitFault ==
    /\ dirs \in FaultDirs
    /\ FreshLoader
    /\ FreshEngine
    /\ cache = EmptyCache
    /\ ret = NoRet
    /\ tasks = NoTasks
    /\ store = NoStore

NextFault ==
    \/ NewEngine
    \/ \E F \in UpToOne(ModelFaults \cup DataCacheFaults \cup EncodeFaults
                         \cup WriteFaults \cup ReadFaults) : InitializeSearchEngine(F)
    \/ \E F \in UpToOne(ReadFaults) : LoadIndexes(F)
    \/ \E F \in UpToOne(QueryFaults) : Search(F, {SearchTypes})
    \/ GenerateTextEmbeddings
    \/ GenerateImageEmbeddings

\* the engine when any one library call or file operation of a call may fail
SpecFault == InitFault /\ [][NextFault]_vars

\* the failures that reach the caller of initialize_search_engine
Propagating == ModelFaults \cup {"write_data_cache"} \cup EncodeFaults \cup WriteFaults

C14_ModelFailuresRaiseEarly ==
    [][/\ (ret'.op = "generate_text_embeddings" /\ ~loader_models.text) => ret'.raised
       /\ (ret'.op = "generate_image_embeddings" /\ ~loader_models.image) => ret'.raised
       /\ (ret'.op = "initialize_search_engine" /\ ret'.faults \cap ModelFaults # {}) =>
             /\ ret'.raised
             /\ UNCHANGED <<cache, text_index, image_index, text_mapping, image_mapping,
                            loaded_data>>]_vars

\* a new engine on a directory that holds a data cache and saved indexes fails
\* to load CLIP: nothing was read from the directory
C14_Witness ==
    /\ ret.op = "initialize_search_engine"
    /\ ret.faults = {"load_clip_model"}
    /\ ret.raised
    /\ cache.data.exists /\ cache.data.ok
    /\ AllIndexFilesExist(cache)
    /\ loaded_data = EmptyData
    /\ ~text_index.set

\* load_indexes reads the two files of a modality whose index file exists;
\* one of those reads fails
AnyReadFails(F) ==
    \/ /\ cache.text_index.exists
       /\ \/ ReadFails(cache.text_index, "read_text_index", F)
          \/ ReadFails(cache.text_mapping, "read_text_mapping", F)
    \/ /\ cache.image_index.exists
       /\ \/ ReadFails(cache.image_index, "read_image_index", F)
          \/ ReadFails(cache.image_mapping, "read_image_mapping", F)

\* C20: load_indexes is all-or-nothing on failure: when reading any of the
\* four files fails, no exception propagates and text_index, text_mapping,
\* image_index and image_mapping keep the values they had before the call
C20_LoadAllOrNothing ==
    [][(ret'.op = "load_indexes" /\ AnyReadFails(ret'.faults)) =>
          /\ ~ret'.raised
          /\ UNCHANGED <<text_index, text_mapping, image_index, image_mapping>>]_vars

-----------------------------------------------------------------------------
(* The loader on its own: MedicalDatasetLoader over every small directory tree *)

RowBlank == [kind |-> "blank", text |-> <<>>, dtype |-> "native"]

\* the files of at most b records
FilesUpTo(b) == SeqsUpTo({RowA, RowBlank, RowBad}, b) \ {<<>>}

\* the contents of a csv / json dataset directory: at most n files holding at
\* most b records together
RECURSIVE FileSeqs(_, _)
FileSeqs(b, n) ==
    IF b = 0 \/ n = 0 THEN {<<>>}
    ELSE {<<>>} \cup UNION {{<<f>> \o rest : rest \in FileSeqs(b - Len(f), n - 1)} :
                            f \in FilesUpTo(b)}

\* the k-th image file of a directory: in the category directory or in the
\* dataset directory itself, intact, truncated (opens, cannot be decoded) or
\* no image at all
ImageFiles(k) ==
    {[loc |-> loc, stem |-> <<"img", k>>, ext |-> ext, valid |-> c[1], decodable |-> c[2],
      pix |-> IF k % 2 = 1 THEN "mri" ELSE "xray"] :
        loc \in {"glioma_tumor", ""}, ext \in {".jpg", ".png"},
        c \in {<<TRUE, TRUE>>, <<TRUE, FALSE>>, <<FALSE, FALSE>>}}

RECURSIVE ImageSeqs(_)
ImageSeqs(n) ==
    IF n = 0 THEN {<<>>}
    ELSE ImageSeqs(n - 1)
         \cup {Append(fs, f) : fs \in {x \in ImageSeqs(n - 1) : Len(x) = n - 1},
                               f \in ImageFiles(n)}

\* a directory tree in which only dataset ds exists, with the given content
OnlyDataset(ds, cats, files) ==
    [NoDirs EXCEPT ![ds] = [exists |-> TRUE, cats |-> cats, files |-> files]]

\* the content every dataset has in the trees that differ in which
\* directories are missing
StandardDir(ds) ==
    IF \E n \in 1..Len(ImageDatasets) : ImageDatasets[n] = ds
    THEN [exists |-> TRUE, cats |-> {Categories(ds)[1]},
          files |-> <<[loc |-> Categories(ds)[1], stem |-> <<"img", 1>>,
                       ext |-> ImageFormats(ds)[1], valid |-> TRUE, decodable |-> TRUE,
                       pix |-> "xray"]>>]
    ELSE [exists |-> TRUE, cats |-> {}, files |-> << <<RowA, RowB>> >>]

LoadDirs ==
    {[ds \in AllDatasets |-> IF ds \in M THEN MissingDir ELSE StandardDir(ds)] :
        M \in SUBSET AllDatasets}
    \cup {OnlyDataset(ds, {}, fs) : ds \in {"diabetes", "medical-transcriptions", "pubmedqa"},
                                    fs \in FileSeqs(MaxRecords, MaxFiles)}
    \cup {OnlyDataset("brain-scans", {fs[i].loc : i \in 1..Len(fs)} \ {""}, fs) :
             fs \in ImageSeqs(MaxFiles)}

InitLoad ==
    /\ dirs \in LoadDirs
    /\ FreshLoader
    /\ FreshEngine
    /\ cache = EmptyCache
    /\ ret = NoRet
    /\ tasks = NoTasks
    /\ store = NoStore

LoaderInitializeModels ==
    /\ loader_models' = initialize_models(loader_models, NoFaults).lm
    /\ ret' = Ret("initialize_models", <<>>, NoFaults, FALSE, <<>>)
    /\ UNCHANGED <<tasks, store, dirs, loaded_data, engine_vars, cache>>

\* a load_csv_datasets that appends to the list it already holds
LoadCsvDatasetsAccumulating ==
    /\ loaded_data' = [loaded_data EXCEPT !.csv = @ \o load_csv_datasets(dirs)]
    /\ ret' = Ret("load_csv_datasets", <<>>, NoFaults, FALSE, load_csv_datasets(dirs))
    /\ UNCHANGED <<tasks, store, dirs, loader_models, engine_vars, cache>>

LoadCsvDatasets ==
    /\ loaded_data' = [loaded_data EXCEPT !.csv = load_csv_datasets(dirs)]
    /\ ret' = Ret("load_csv_datasets", <<>>, NoFaults, FALSE, load_csv_datasets(dirs))
    /\ UNCHANGED <<tasks, store, dirs, loader_models, engine_vars, cache>>

LoadTextDatasets ==
    /\ loaded_data' = [loaded_data EXCEPT !.text = load_text_datasets(dirs)]
    /\ ret' = Ret("load_text_datasets", <<>>, NoFaults, FALSE, load_text_datasets(dirs))
    /\ UNCHANGED <<tasks, store, dirs, loader_models, engine_vars, cache>>

LoadImageDatasets ==
    /\ loaded_data' = [loaded_data EXCEPT !.image = load_image_datasets(dirs)]
    /\ ret' = Ret("load_image_datasets", <<>>, NoFaults, FALSE, load_image_datasets(dirs))
    /\ UNCHANGED <<tasks, store, dirs, loader_models, engine_vars, cache>>

NextLoad ==
    \/ LoaderInitializeModels
    \/ LoadCsvDatasets
    \/ LoadTextDatasets
    \/ LoadImageDatasets
    \/ GenerateImageEmbeddings

SpecLoad == InitLoad /\ [][NextLoad]_vars

-----------------------------------------------------------------------------
(* Properties of the loader *)

\* the datasets a loader reads
DatasetsOf(op) ==
    CASE op = "load_csv_datasets" -> Range(CsvDatasets)
      [] op = "load_text_datasets" -> Range(TextDatasets)
      [] OTHER -> Range(ImageDatasets)

\* record i of file f of a csv / json dataset yields an item: every parsed
\* row of a csv dataset does, a transcription row or question entry when its
\* text is present
YieldsItem(ds, row) ==
    IF \E n \in 1..Len(CsvDatasets) : CsvDatasets[n] = ds
    THEN row.kind # "bad" ELSE row.kind = "ok"

\* items holds the item of record i of file f of dataset ds
HasRecord(items, ds, f, i) ==
    \E j \in 1..Len(items) :
        items[j].dataset = ds /\ items[j].file_path = <<ds, f>> /\ items[j].id = <<ds, i - 1>>

\* items holds an item for image file img of dataset ds
HasImage(items, ds, img) ==
    \E j \in 1..Len(items) :
        items[j].dataset = ds /\ items[j].file_path = <<ds, img.loc, img.stem, img.ext>>

\* an image file the loader is to find: a configured category directory holds
\* it, its extension is a configured format and it verifies
IsDatasetImage(ds, dir, img) ==
    /\ img.valid
    /\ img.loc \in dir.cats \cap Range(Categories(ds))
    /\ img.ext \in Range(ImageFormats(ds))

\* items holds an item for every well-formed record of dataset ds
AllRecordsLoaded(items, op, ds) ==
    IF op = "load_image_datasets"
    THEN \A k \in 1..Len(dirs[ds].files) :
            IsDatasetImage(ds, dirs[ds], dirs[ds].files[k]) => HasImage(items, ds, dirs[ds].files[k])
    ELSE \A f \in 1..Len(dirs[ds].files) : \A i \in 1..Len(dirs[ds].files[f]) :
            YieldsItem(ds, dirs[ds].files[f][i]) => HasRecord(items, ds, f, i)

\* no record of dataset ds is malformed
WellFormed(op, ds) ==
    op = "load_image_datasets"
    \/ \A f \in 1..Len(dirs[ds].files) : \A i \in 1..Len(dirs[ds].files[f]) :
          dirs[ds].files[f][i].kind # "bad"

LoadOps == {"load_csv_datasets", "load_text_datasets", "load_image_datasets"}

\* C6: generate_image_embeddings does not raise for images it cannot decode
\* and returns one vector per input item in input order, the zero vector for
\* each failed item, so a bad image never shifts a later item's vector.
C6_OneVectorPerItem ==
    (ret.op = "generate_image_embeddings" /\ loader_models.image) =>
        /\ ~ret.raised
        /\ Len(ret.value) = Len(ret.args[1])
        /\ \A i \in 1..Len(ret.args[1]) :
              LET f == FileAt(dirs, ret.args[1][i].file_path)
              IN  ret.value[i] = IF f.found /\ f.decodable
                                 THEN ClipEncodeImage(ret.args[1][i].content[2])
                                 ELSE ZeroVec

\* a truncated image is followed by an intact one
C6_Witness ==
    /\ ret.op = "generate_image_embeddings"
    /\ ~ret.raised
    /\ Len(ret.args[1]) = 2
    /\ ret.value[1] = ZeroVec
    /\ ret.value[2] # ZeroVec

\* C7: whichever dataset directories are missing, the loaders do not raise,
\* return no item of a missing dataset and return every item of every dataset
\* whose directory exists (and holds no malformed record).
C7_MissingDirsSkipped ==
    ret.op \in LoadOps =>
        /\ ~ret.raised
        /\ \A ds \in DatasetsOf(ret.op) :
              IF ~dirs[ds].exists
              THEN \A j \in 1..Len(ret.value) : ret.value[j].dataset # ds
              ELSE WellFormed(ret.op, ds) => AllRecordsLoaded(ret.value, ret.op, ds)

\* the first csv dataset is missing, the last one exists and was loaded
C7_Witness ==
    /\ ret.op = "load_csv_datasets"
    /\ ~dirs["breast-cancer"].exists
    /\ dirs["stroke"].exists
    /\ HasRecord(ret.value, "stroke", 1, 2)

\* C8: a malformed record skips only that row: the loader still emits an item
\* for every other well-formed row of the same file and of the remaining
\* files of the dataset.
C8_BadRowSkippedAlone ==
    ret.op \in {"load_csv_datasets", "load_text_datasets"} =>
        \A ds \in DatasetsOf(ret.op) :
            dirs[ds].exists => AllRecordsLoaded(ret.value, ret.op, ds)

\* no two items of the list have the same id
UniqueIds(items) ==
    \A i, j \in 1..Len(items) : i # j => items[i].id # items[j].id

\* C21: item identifiers are unique: after any of the three loaders no two
\* items across loaded_data have the same id, for every directory layout
C21_ItemIdsUnique ==
    UniqueIds(loaded_data.csv \o loaded_data.text \o loaded_data.image)

\* C22: load_image_datasets emits at most one item per image file on disk,
\* and the item's category is the name of the directory that contains the
\* file, also when some or all configured category directories are missing
C22_OneItemPerImageFile ==
    ret.op = "load_image_datasets" =>
        /\ \A i, j \in 1..Len(ret.value) :
              i # j => ret.value[i].file_path # ret.value[j].file_path
        /\ \A i \in 1..Len(ret.value) : ret.value[i].category = ret.value[i].file_path[2]

\* the slot of loaded_data a loader assigns
SlotOf(op) ==
    CASE op = "load_csv_datasets" -> "csv"
      [] op = "load_text_datasets" -> "text"
      [] OTHER -> "image"

\* C24: each loader replaces only its own slot of loaded_data with the list
\* it returns and leaves the other two slots unchanged; a slot that an earlier
\* call of the same loader filled from the same directories holds the same
\* list afterwards, never a duplicated or accumulated one
C24_LoaderReplacesOwnSlot ==
    [][ret'.op \in LoadOps =>
          /\ loaded_data'[SlotOf(ret'.op)] = ret'.value
          /\ \A slot \in {"csv", "text", "image"} \ {SlotOf(ret'.op)} :
                loaded_data'[slot] = loaded_data[slot]
          /\ loaded_data[SlotOf(ret'.op)] # <<>> =>
                loaded_data'[SlotOf(ret'.op)] = loaded_data[SlotOf(ret'.op)]]_vars

\* load_csv_datasets has returned its list on a loader whose text and image
\* slots were filled before
C24_Witness ==
    /\ ret.op = "load_csv_datasets"
    /\ Len(ret.value) >= 2
    /\ loaded_data.csv = ret.value
    /\ loaded_data.text # <<>>
    /\ loaded_data.image # <<>>

-----------------------------------------------------------------------------
(* searchEngine.py: the coroutines on one event loop.  Control passes from one
   coroutine to another only where a coroutine awaits: initialize_search_engine
   at 124, build_search_indexes at 143 and 146, search at 317 and 321.  The
   bodies of build_text_index, build_image_index, search_text and search_images
   hold no await, and save_indexes and load_indexes are plain functions. *)

AsyncDirs == {Snapshot(1, 2), Snapshot(2, 2), Snapshot(2, 0)}

InitAsync ==
    /\ dirs \in AsyncDirs
    /\ FreshLoader
    /\ FreshEngine
    /\ cache = EmptyCache
    /\ ret = NoRet
    /\ tasks = NoTasks
    /\ store = NoStore

\* searchEngine.py 101-121: initialize_search_engine up to its await of
\* build_search_indexes, no library call failing; [e, lm, ld]
InitializePrefix(e, d, ld, lm, force_rebuild) ==
    LET m == initialize_models(lm, NoFaults)
        cached == IF force_rebuild THEN [ok |-> FALSE, data |-> ld]
                  ELSE load_data_cache(e.cache, ld, NoFaults)
        ld1 == IF cached.ok THEN cached.data ELSE LoadAll(d)
    IN  [e |-> IF cached.ok THEN e ELSE save_data_cache(e, ld1, NoFaults),
         lm |-> m.lm, ld |-> ld1]

\* searchEngine.py 131-143: build_search_indexes up to its first await; the
\* saved indexes are loaded and the coroutine returns, or it goes on to build
BuildFirstSegment(e, force_rebuild) ==
    IF ~force_rebuild /\ AllIndexFilesExist(e.cache)
    THEN [e |-> load_indexes(e, NoFaults), pc |-> "idle"]
    ELSE [e |-> e, pc |-> "text"]

\* the dataset directories change on disk
AsyncDatasetsChange ==
    /\ \E d \in AsyncDirs \ {dirs} : dirs' = d
    /\ UNCHANGED <<tasks, store, loaded_data, loader_models, engine_vars, cache, ret>>

\* initialize_search_engine runs to the first await of build_search_indexes
AsyncInitialize ==
    /\ tasks.build = "idle"
    /\ \E force_rebuild \in BOOLEAN :
        \E p \in {InitializePrefix(Cur, dirs, loaded_data, loader_models, force_rebuild)} :
            \E seg \in {BuildFirstSegment(p.e, force_rebuild)} :
                /\ Assign(seg.e)
                /\ loader_models' = p.lm
                /\ loaded_data' = p.ld
                /\ text_model' = p.lm.text
                /\ image_model' = p.lm.image
                /\ tasks' = [tasks EXCEPT !.build = seg.pc, !.force_rebuild = force_rebuild]
                /\ ret' = IF seg.pc = "idle"
                          THEN Ret("initialize_search_engine", <<force_rebuild>>,
                                   NoFaults, FALSE, <<>>)
                          ELSE ret
    /\ UNCHANGED <<store, dirs>>

\* build_search_indexes is called on an initialized engine and runs to its
\* first await
AsyncBuild ==
    /\ tasks.build = "idle"
    /\ text_model
    /\ \E force_rebuild \in BOOLEAN :
        \E seg \in {BuildFirstSegment(Cur, force_rebuild)} :
            /\ Assign(seg.e)
            /\ tasks' = [tasks EXCEPT !.build = seg.pc, !.force_rebuild = force_rebuild]
            /\ ret' = IF seg.pc = "idle"
                      THEN Ret("build_search_indexes", <<force_rebuild>>,
                               NoFaults, FALSE, <<>>)
                      ELSE ret
    /\ UNCHANGED <<store, dirs, loaded_data, loader_models, text_model, image_model>>

\* searchEngine.py 143-146: the build resumes, runs build_text_index and
\* reaches the await of build_image_index
AsyncBuildText ==
    /\ tasks.build = "text"
    /\ \E e \in {build_text_index(Cur, loaded_data, loader_models, NoFaults)} :
        /\ Assign(e)
        /\ tasks' = [tasks EXCEPT !.build = IF e.raised THEN "idle" ELSE "image"]
        /\ ret' = IF e.raised
                  THEN Ret("build_search_indexes", <<tasks.force_rebuild>>,
                           NoFaults, TRUE, <<>>)
                  ELSE ret
    /\ UNCHANGED <<store, dirs, loaded_data, loader_models, text_model, image_model>>

\* searchEngine.py 146-153: the build resumes, runs build_image_index and
\* save_indexes, and returns
AsyncBuildImage ==
    /\ tasks.build = "image"
    /\ \E b \in {build_image_index(Cur, dirs, loaded_data, loader_models)} :
        \E e \in {IF b.raised THEN b ELSE save_indexes(b, NoFaults)} :
            /\ Assign(e)
            /\ ret' = Ret("build_search_indexes", <<tasks.force_rebuild>>,
                          NoFaults, e.raised, <<>>)
    /\ tasks' = [tasks EXCEPT !.build = "idle"]
    /\ UNCHANGED <<store, dirs, loaded_data, loader_models, text_model, image_model>>

\* searchEngine.py 298-321: search (all search types) runs search_text and
\* reaches the await of search_images, holding the text results
AsyncSearchText ==
    /\ tasks.search = <<>>
    /\ \E query \in Queries, top_k \in 1..MaxTopK :
        \E r \in {search_text(Cur, text_model, query, top_k, NoFaults)} :
            /\ tasks' = [tasks EXCEPT !.search =
                            IF r.raised THEN <<>>
                            ELSE <<[query |-> query, top_k |-> top_k,
                                    results |-> r.value]>>]
            /\ ret' = IF r.raised
                      THEN Ret("search", <<query, top_k, SearchTypes>>, NoFaults, TRUE, <<>>)
                      ELSE ret
    /\ UNCHANGED <<store, dirs, loaded_data, loader_models, engine_vars, cache>>

\* searchEngine.py 321-327: search resumes, runs search_images, ranks and returns
AsyncSearchImages ==
    /\ tasks.search # <<>>
    /\ LET s == tasks.search[1]
       IN  \E r \in {search_images(Cur, image_model, s.query, s.top_k, NoFaults)} :
               ret' = Ret("search", <<s.query, s.top_k, SearchTypes>>, NoFaults, r.raised,
                          IF r.raised THEN <<>>
                          ELSE RankAndCut(s.results \o r.value, s.top_k))
    /\ tasks' = [tasks EXCEPT !.search = <<>>]
    /\ UNCHANGED <<store, dirs, loaded_data, loader_models, engine_vars, cache>>

NextAsync ==
    \/ AsyncDatasetsChange
    \/ AsyncInitialize
    \/ AsyncBuild
    \/ AsyncBuildText
    \/ AsyncBuildImage
    \/ AsyncSearchText
    \/ AsyncSearchImages

SpecAsync == InitAsync /\ [][NextAsync]_vars

-----------------------------------------------------------------------------
(* The data cache: engines and loaders that share one cache directory while
   the dataset directories change, a read or a write of the cache file or the
   text encoder failing *)

\* loadData.py 386-399: the loader saves what it has loaded
SaveDataCache ==
    \E F \in UpToOne({"write_data_cache"}) :
        \E e \in {save_data_cache(Cur, loaded_data, F)} :
            /\ cache' = e.cache
            /\ ret' = Ret("save_data_cache", <<loaded_data>>, F, e.raised, <<>>)
            /\ UNCHANGED <<tasks, store, dirs, loaded_data, loader_models, text_model, image_model,
                           text_index, image_index, text_mapping, image_mapping>>

\* loadData.py 401-418: the loader reads the cache file
LoadDataCache ==
    \E F \in UpToOne({"read_data_cache"}) :
        \E r \in {load_data_cache(cache, loaded_data, F)} :
            /\ loaded_data' = r.data
            /\ ret' = Ret("load_data_cache", <<>>, F, FALSE, r.ok)
            /\ UNCHANGED <<tasks, store, dirs, loader_models, engine_vars, cache>>

NextCache ==
    \/ NewEngine
    \/ AsyncDatasetsChange
    \/ \E F \in UpToOne(DataCacheFaults \cup EncodeFaults) : InitializeSearchEngine(F)
    \/ SaveDataCache
    \/ LoadDataCache

SpecCache == InitAsync /\ [][NextCache]_vars

\* the data cache file can be read by the call whose failing calls are F
CacheReadable(F) == cache.data.exists /\ cache.data.ok /\ "read_data_cache" \notin F

\* C18: initialize_search_engine (its models loaded) uses the data cache
\* exactly when allowed.  With force_rebuild=False and a readable cache,
\* loaded_data is the cached value, whatever the dataset directories hold, and
\* the cache file is left alone.  With force_rebuild=True or a missing or
\* unreadable cache, loaded_data is what the three loaders read from the
\* directories, and the cache file holds that data even if the index build
\* that follows fails
C18_DataCacheUsedWhenAllowed ==
    [][(ret'.op = "initialize_search_engine" /\ dirs' = dirs) =>
          IF ~ret'.args[1] /\ CacheReadable(ret'.faults)
          THEN /\ loaded_data' = cache.data.data
               /\ cache'.data = cache.data
          ELSE /\ loaded_data' = LoadAll(dirs)
               /\ "write_data_cache" \notin ret'.faults =>
                     (cache'.data.ok /\ cache'.data.data = LoadAll(dirs))]_vars

\* the cache was used although the directories have changed since it was written
C18_Witness ==
    /\ ret.op = "initialize_search_engine"
    /\ ~ret.args[1]
    /\ ~ret.raised
    /\ ret.faults = {}
    /\ cache.data.ok
    /\ loaded_data = cache.data.data
    /\ loaded_data # LoadAll(dirs)

\* C19: the data cache round trip.  After save_data_cache the file stores
\* total_items = the sum of the three list lengths; load_data_cache on a new
\* loader over the same cache directory returns True with loaded_data equal to
\* the saved value, and so does load_data_cache on the loader that saved
C19_DataCacheRoundTrip ==
    [][(ret.op = "save_data_cache" /\ ~ret.raised) =>
          /\ cache.data.total_items = TotalItems(ret.args[1])
          /\ load_data_cache(cache, EmptyData, NoFaults) = [ok |-> TRUE, data |-> ret.args[1]]
          /\ (ret'.op = "load_data_cache" /\ ret'.faults = {}) =>
                (ret'.value = TRUE /\ loaded_data' = ret.args[1])]_vars

\* a loader has read back a cache of three items, one of them a CSV record
\* whose metadata holds numpy values
C19_Witness ==
    /\ ret.op = "load_data_cache"
    /\ ret.value = TRUE
    /\ cache.data.total_items = 3
    /\ loaded_data = cache.data.data
    /\ Len(loaded_data.csv) = 1
    /\ loaded_data.csv[1].metadata = "numpy_int"

-----------------------------------------------------------------------------
(* searchEngine.py: the document store.  The collection outlives the engine;
   an engine is constructed with or without a mongo_uri. *)

\* searchEngine.py 262-272 / 279-289: the document of an item
Document(item, embedding) ==
    [id |-> item.id, dataset |-> item.dataset, type |-> item.type,
     content |-> item.content, metadata |-> item.metadata,
     file_path |-> item.file_path, embedding |-> embedding]

\* searchEngine.py 258-289: a document for entry i of a mapping when the index
\* is set and holds a vector i
MappingDocuments(index, mapping) ==
    LET held == SelectSeq([i \in 1..Len(mapping) |-> i],
                          LAMBDA i : index.set /\ i <= Len(index.vecs))
    IN  [k \in 1..Len(held) |-> Document(mapping[held[k]], index.vecs[held[k]])]

\* searchEngine.py 242-296: populate_mongodb on a configured collection; the
\* documents the collection holds afterwards: delete_many({}) empties it,
\* insert_many(ordered=False) inserts every document whose _id is not taken
\* yet and its BulkWriteError is caught
populate_mongodb(e) ==
    LET all_documents == MappingDocuments(e.ti, e.tm) \o MappingDocuments(e.ii, e.im)
    IN  {all_documents[i] : i \in {k \in 1..Len(all_documents) :
            \A j \in 1..(k - 1) : all_documents[j].id # all_documents[k].id}}

\* searchEngine.py 101-153: initialize_search_engine on an engine whose store
\* is st; truthy is what "if self.collection:" (152) yields on a collection
\* object: true, or the NotImplementedError of a pymongo that refuses truth
\* tests.  [r, store]
InitializeWithStore(e, d, ld, lm, force_rebuild, st, truthy) ==
    LET r == initialize_search_engine(e, d, ld, lm, force_rebuild, NoFaults)
        rebuilt == force_rebuild \/ ~AllIndexFilesExist(e.cache)
    IN  IF r.e.raised \/ ~rebuilt \/ ~st.configured THEN [r |-> r, store |-> st]
        ELSE IF ~truthy THEN [r |-> [r EXCEPT !.e = Raise(@)], store |-> st]
        ELSE [r |-> r, store |-> [st EXCEPT !.docs = populate_mongodb(r.e)]]

InitStore ==
    /\ dirs \in AsyncDirs
    /\ FreshLoader
    /\ FreshEngine
    /\ cache = EmptyCache
    /\ ret = NoRet
    /\ tasks = NoTasks
    /\ store \in {[NoStore EXCEPT !.configured = c] : c \in BOOLEAN}

\* a new process constructs a MedicalSearchEngine on the same directories,
\* with or without a mongo_uri; the collection keeps its documents
StoreNewEngine ==
    /\ loaded_data' = EmptyData
    /\ loader_models' = [text |-> FALSE, image |-> FALSE]
    /\ text_model' = FALSE
    /\ image_model' = FALSE
    /\ text_index' = NoIndex
    /\ image_index' = NoIndex
    /\ text_mapping' = <<>>
    /\ image_mapping' = <<>>
    /\ \E c \in BOOLEAN : store' = [store EXCEPT !.configured = c]
    /\ ret' = Ret("new", <<>>, NoFaults, FALSE, <<>>)
    /\ UNCHANGED <<tasks, dirs, cache>>

StoreInitialize ==
    \E force_rebuild \in BOOLEAN, truthy \in BOOLEAN :
        \E x \in {InitializeWithStore(Cur, dirs, loaded_data, loader_models,
                                      force_rebuild, store, truthy)} :
            /\ Assign(x.r.e)
            /\ loader_models' = x.r.lm
            /\ loaded_data' = x.r.ld
            /\ text_model' = (IF x.r.models THEN x.r.lm.text ELSE text_model)
            /\ image_model' = (IF x.r.models THEN x.r.lm.image ELSE image_model)
            /\ store' = x.store
            /\ ret' = Ret("initialize_search_engine", <<force_rebuild>>, NoFaults,
                          x.r.e.raised, <<>>)
            /\ UNCHANGED <<tasks, dirs>>

NextStore ==
    \/ StoreNewEngine
    \/ AsyncDatasetsChange
    \/ StoreInitialize

SpecStore == InitStore /\ [][NextStore]_vars

\* the store holds a document for every item of the mapping
Mirrors(mapping) ==
    \A i \in 1..Len(mapping) :
        \E doc \in store.docs : doc.id = mapping[i].id /\ doc.content = mapping[i].content

====
